---- MODULE Spec2Model ----
(***************************************************************************)
(* Owner entity resolution of services/scraper-service/python/             *)
(* owner_detection.py: detect_owners groups the active scraped listings    *)
(* by normalized phone and by platform:host_id, and save_owners_to_db      *)
(* reconciles the groups with the detected_owners / owner_listings tables. *)
(*                                                                         *)
(* Strings the code takes apart (phones, host names) are sequences of      *)
(* one-character strings.  Python's None and the empty string are both     *)
(* falsy and the code only tests truthiness, so both are the empty         *)
(* sequence (or "" for fields that are never taken apart).                 *)
(***************************************************************************)
EXTENDS Integers, Sequences, FiniteSets, TLC

\* ------------------------------------------------------------- bounds
NumListings == 3
MaxRuns == 2
MaxFailures == 1
MaxChanges == 1

\* ------------------------------------------------------------ helpers
None == <<>>

Digits == {"0", "1", "2", "3", "4", "5", "6", "7", "8", "9"}

\* Characters outside 0-9 for which str.isdigit is true as well (superscript
\* two, U+00B2, is one); "sup2" stands for one such character.
OtherDigits == {"sup2"}

\* c.isdigit()
IsDigit(c) == c \in Digits \cup OtherDigits

StartsWith(s, prefix) ==
    /\ Len(s) >= Len(prefix)
    /\ SubSeq(s, 1, Len(prefix)) = prefix

DropPrefix(s, n) == SubSeq(s, n + 1, Len(s))

SeqToSet(s) == {s[i] : i \in 1..Len(s)}

\* ---------------------------------------------------- normalize_phone
NormalizePhoneKeepZero(phone) ==
    IF phone = None THEN None
    ELSE LET digits == SelectSeq(phone, IsDigit)
             local ==
                 IF StartsWith(digits, <<"0", "0", "2", "2", "1">>) THEN DropPrefix(digits, 5)
                 ELSE IF StartsWith(digits, <<"2", "2", "1">>) THEN DropPrefix(digits, 3)
                 ELSE digits
         IN  IF Len(local) = 9 /\ (StartsWith(local, <<"7">>) \/ StartsWith(local, <<"3">>))
             THEN <<"+", "2", "2", "1">> \o local
             ELSE None

normalize_phone(phone) ==
    IF phone = None THEN None
    ELSE LET digits == SelectSeq(phone, IsDigit)
             local ==
                 IF StartsWith(digits, <<"0", "0", "2", "2", "1">>) THEN DropPrefix(digits, 5)
                 ELSE IF StartsWith(digits, <<"2", "2", "1">>) THEN DropPrefix(digits, 3)
                 ELSE IF StartsWith(digits, <<"0">>) THEN DropPrefix(digits, 1)
                 ELSE digits
         IN  IF Len(local) = 9 /\ (StartsWith(local, <<"7">>) \/ StartsWith(local, <<"3">>))
             THEN <<"+", "2", "2", "1">> \o local
             ELSE None

\* ----------------------------------------- extract_phone_from_listing
phone_fields == <<"phone", "phoneNumber", "whatsapp", "contact_phone">>

\* raw_data.get(field), raw_data being listing.get('raw_data') or {}
Get(raw_data, field) ==
    IF field \in DOMAIN raw_data THEN raw_data[field] ELSE None

\* the search ends at the first field that holds a value
RECURSIVE FirstPresentPhone(_, _)
FirstPresentPhone(raw_data, i) ==
    IF i > Len(phone_fields) THEN None
    ELSE LET phone == Get(raw_data, phone_fields[i])
         IN  IF phone # None THEN normalize_phone(phone)
             ELSE FirstPresentPhone(raw_data, i + 1)

ExtractFirstPresent(listing) == FirstPresentPhone(listing.raw_data, 1)

\* the first value found is the key as it is written
RECURSIVE FirstRawPhone(_, _)
FirstRawPhone(raw_data, i) ==
    IF i > Len(phone_fields) THEN None
    ELSE IF Get(raw_data, phone_fields[i]) # None
         THEN Get(raw_data, phone_fields[i])
         ELSE FirstRawPhone(raw_data, i + 1)

ExtractRawPhone(listing) == FirstRawPhone(listing.raw_data, 1)

RECURSIVE FirstValidPhone(_, _)
FirstValidPhone(raw_data, i) ==
    IF i > Len(phone_fields) THEN None
    ELSE LET phone == Get(raw_data, phone_fields[i])
             normalized == IF phone # None THEN normalize_phone(phone) ELSE None
         IN  IF normalized # None THEN normalized
             ELSE FirstValidPhone(raw_data, i + 1)

extract_phone_from_listing(listing) == FirstValidPhone(listing.raw_data, 1)

\* ------------------------------------------------------ detect_owners
\* Distinct non-empty keys in the order of their first appearance: the key
\* order of a defaultdict filled while iterating over the listings.
RECURSIVE FirstOccurrences(_)
FirstOccurrences(keys) ==
    IF keys = <<>> THEN <<>>
    ELSE LET rest == FirstOccurrences(SubSeq(keys, 1, Len(keys) - 1))
             key == keys[Len(keys)]
         IN  IF key = None \/ key \in SeqToSet(rest) THEN rest
             ELSE Append(rest, key)

HostPlatforms == {"airbnb", "booking"}

\* f"{platform}:{host_id}" as the pair <<platform, host_id>>
HostKeyAnyPlatform(listing) ==
    IF listing.host_id # "" THEN <<listing.platform, listing.host_id>> ELSE None

HostKey(listing) ==
    IF listing.host_id # "" /\ listing.platform \in HostPlatforms
    THEN <<listing.platform, listing.host_id>>
    ELSE None

ListingIds(ls) == [i \in 1..Len(ls) |-> ls[i].id]

\* a phone group made of the listings that follow one another with the phone,
\* from the first that has it
ByPhoneConsecutive(listings) ==
    LET phone == [i \in 1..Len(listings) |-> extract_phone_from_listing(listings[i])]
        keys == FirstOccurrences(phone)
        first(key) == CHOOSE i \in 1..Len(listings) :
                          phone[i] = key /\ \A j \in 1..(i - 1) : phone[j] # key
        last(key) == CHOOSE i \in first(key)..Len(listings) :
                         /\ \A j \in first(key)..i : phone[j] = key
                         /\ i < Len(listings) => phone[i + 1] # key
    IN  [i \in 1..Len(keys) |->
            [key |-> keys[i],
             listings |-> SubSeq(listings, first(keys[i]), last(keys[i]))]]

by_phone(listings) ==
    LET keys == FirstOccurrences([i \in 1..Len(listings) |->
                                     extract_phone_from_listing(listings[i])])
    IN  [i \in 1..Len(keys) |->
            [key |-> keys[i],
             listings |-> SelectSeq(listings,
                             LAMBDA l : extract_phone_from_listing(l) = keys[i])]]

by_host_id(listings) ==
    LET keys == FirstOccurrences([i \in 1..Len(listings) |-> HostKey(listings[i])])
    IN  [i \in 1..Len(keys) |->
            [key |-> keys[i],
             listings |-> SelectSeq(listings, LAMBDA l : HostKey(l) = keys[i])]]

\* only a phone that several listings share makes a group
PhoneGroupsShared(listings) ==
    LET groups == SelectSeq(by_phone(listings), LAMBDA group : Len(group.listings) >= 2)
    IN  [i \in 1..Len(groups) |->
            [match_type |-> "phone",
             identifier |-> groups[i].key,
             listings |-> groups[i].listings,
             listing_ids |-> ListingIds(groups[i].listings)]]

\* the phone groups, in the key order of by_phone
PhoneGroups(listings) ==
    LET groups == by_phone(listings)
    IN  [i \in 1..Len(groups) |->
            [match_type |-> "phone",
             identifier |-> groups[i].key,
             listings |-> groups[i].listings,
             listing_ids |-> ListingIds(groups[i].listings)]]

ProcessedByPhone(listings) ==
    UNION {SeqToSet(PhoneGroups(listings)[i].listing_ids) :
              i \in 1..Len(PhoneGroups(listings))}

NewIdsUnfiltered(listing_ids, processed_listing_ids) == listing_ids

NewIds(listing_ids, processed_listing_ids) ==
    SelectSeq(listing_ids, LAMBDA lid : lid \notin processed_listing_ids)

RECURSIVE HostGroups(_, _, _)
HostGroups(groups, i, processed_listing_ids) ==
    IF i > Len(groups) THEN <<>>
    ELSE LET host_listings == groups[i].listings
             new_ids == NewIds(ListingIds(host_listings), processed_listing_ids)
             new_listings == SelectSeq(host_listings,
                                 LAMBDA l : l.id \in SeqToSet(new_ids))
         IN  IF new_ids # <<>> /\ new_listings # <<>>
             THEN <<[match_type |-> "host_id",
                     identifier |-> groups[i].key,
                     listings |-> new_listings,
                     listing_ids |-> new_ids]>>
                  \o HostGroups(groups, i + 1,
                                processed_listing_ids \cup SeqToSet(new_ids))
             ELSE HostGroups(groups, i + 1, processed_listing_ids)

\* The owner_groups list detect_owners hands to save_owners_to_db.
OwnerGroups(listings) ==
    PhoneGroups(listings)
        \o HostGroups(by_host_id(listings), 1, ProcessedByPhone(listings))

\* --------------------------------- save_owners_to_db: the owner record
Whitespace == {" "}

RECURSIVE LStrip(_)
LStrip(s) == IF s # <<>> /\ s[1] \in Whitespace THEN LStrip(Tail(s)) ELSE s

RECURSIVE RStrip(_)
RStrip(s) ==
    IF s # <<>> /\ s[Len(s)] \in Whitespace
    THEN RStrip(SubSeq(s, 1, Len(s) - 1))
    ELSE s

Strip(s) == RStrip(LStrip(s))

Names(ls) ==
    {Strip(ls[i].host_name) :
        i \in {j \in 1..Len(ls) : ls[j].host_name # None /\ Strip(ls[j].host_name) # None}}

Platforms(ls) == {ls[i].platform : i \in 1..Len(ls)}

HostIds(ls) ==
    {HostKeyAnyPlatform(ls[i]) : i \in {j \in 1..Len(ls) : ls[j].host_id # ""}}

RECURSIVE TotalPrice(_)
TotalPrice(ls) ==
    IF ls = <<>> THEN 0
    ELSE (IF Head(ls).price > 0 THEN Head(ls).price ELSE 0) + TotalPrice(Tail(ls))

PriceCount(ls) == Len(SelectSeq(ls, LAMBDA l : l.price > 0))

\* the total is divided by the number of all listings
AvgPriceOverAll(ls) ==
    IF Len(ls) > 0 THEN TotalPrice(ls) \div Len(ls) ELSE 0

\* int(total_price / price_count) if price_count > 0 else 0
AvgPrice(ls) ==
    IF PriceCount(ls) > 0 THEN TotalPrice(ls) \div PriceCount(ls) ELSE 0

OccupiedNights == 15

\* the listings without a positive price are left out of the count
EstimatedMonthlyPriced(ls) ==
    IF AvgPrice(ls) # 0 THEN AvgPrice(ls) * PriceCount(ls) * OccupiedNights ELSE 0

EstimatedMonthly(ls) ==
    IF AvgPrice(ls) # 0 THEN AvgPrice(ls) * Len(ls) * OccupiedNights ELSE 0

NoPhone == None

\* owner_data without first_seen_at; primary_phone is set for phone groups only
OwnerData(group, now) ==
    [names |-> Names(group.listings),
     host_ids |-> HostIds(group.listings),
     platforms |-> Platforms(group.listings),
     listing_count |-> Len(group.listings),
     active_listing_count |-> Len(group.listings),
     unregistered_count |-> Len(group.listings),
     registered_count |-> 0,
     avg_price_per_night |-> AvgPrice(group.listings),
     estimated_monthly_revenue |-> EstimatedMonthly(group.listings),
     last_seen_at |-> now]

OwnerDataFor(group, now) ==
    IF group.match_type = "phone"
    THEN OwnerData(group, now) @@ [primary_phone |-> group.identifier]
    ELSE OwnerData(group, now)

\* ------------------------------------------------------------ the store
\* detected_owners and owner_listings are sequences of rows in insertion
\* order; scraped_listings is a function of the listing id.
ConfidencePhone == 10
ConfidenceHostId == 9

\* every link is given the confidence of a phone match
ConfidenceOfPhone(match_type) == ConfidencePhone

\* 1.0 if match_type == 'phone' else 0.9, in tenths
Confidence(match_type) ==
    IF match_type = "phone" THEN ConfidencePhone ELSE ConfidenceHostId

SameLink(a, b) ==
    a.owner_id = b.owner_id /\ a.scraped_listing_id = b.scraped_listing_id

InsertLink(table, row) == Append(table, row)

\* the links of the owner to other listings are removed by the write
ReplaceLinks(table, row) ==
    Append(SelectSeq(table, LAMBDA link : link.owner_id # row.owner_id), row)

\* upsert(link_data, on_conflict='owner_id,scraped_listing_id')
UpsertLink(table, row) ==
    IF \E i \in 1..Len(table) : SameLink(table[i], row)
    THEN [i \in 1..Len(table) |-> IF SameLink(table[i], row) THEN row ELSE table[i]]
    ELSE Append(table, row)

OwnersByPhoneNone(table, identifier) == {}

\* select('id').eq('primary_phone', identifier): the matching row ids
OwnersByPhone(table, identifier) ==
    {table[i].id : i \in {j \in 1..Len(table) : table[j].primary_phone = identifier}}

\* an update that adds the names, platforms and host ids to those of the row
UpdateOwnerMerging(table, id, owner_data) ==
    [i \in 1..Len(table) |->
        IF table[i].id = id
        THEN [f \in DOMAIN table[i] |->
                 IF f \in {"names", "platforms", "host_ids"}
                 THEN table[i][f] \cup owner_data[f]
                 ELSE IF f \in DOMAIN owner_data THEN owner_data[f] ELSE table[i][f]]
        ELSE table[i]]

\* update(owner_data).eq('id', id)
UpdateOwner(table, id, owner_data) ==
    [i \in 1..Len(table) |->
        IF table[i].id = id
        THEN [f \in DOMAIN table[i] |->
                 IF f \in DOMAIN owner_data THEN owner_data[f] ELSE table[i][f]]
        ELSE table[i]]

NextOwnerId(table) == Len(table) + 1

\* an insert under a unique primary_phone: a conflict rewrites the row
InsertOwnerUniquePhone(table, owner_data) ==
    IF /\ "primary_phone" \in DOMAIN owner_data
       /\ \E i \in 1..Len(table) : table[i].primary_phone = owner_data.primary_phone
    THEN [i \in 1..Len(table) |->
             IF table[i].primary_phone = owner_data.primary_phone
             THEN [f \in DOMAIN table[i] |->
                      IF f \in DOMAIN owner_data THEN owner_data[f] ELSE table[i][f]]
             ELSE table[i]]
    ELSE Append(table,
                owner_data @@ [id |-> Len(table) + 1,
                               primary_phone |-> NoPhone,
                               risk_score |-> 0])

\* an insert that first looks for an owner row of the same host ids
InsertOwnerUniqueHost(table, owner_data) ==
    IF /\ "primary_phone" \notin DOMAIN owner_data
       /\ \E i \in 1..Len(table) :
              table[i].primary_phone = NoPhone /\ table[i].host_ids = owner_data.host_ids
    THEN table
    ELSE Append(table,
                owner_data @@ [id |-> Len(table) + 1,
                               primary_phone |-> NoPhone,
                               risk_score |-> 0])

\* insert(owner_data): the store fills the id and the columns not given
InsertOwner(table, owner_data) ==
    Append(table,
           owner_data @@ [id |-> NextOwnerId(table),
                          primary_phone |-> NoPhone,
                          risk_score |-> 0])

LinkCount(table, owner_id) ==
    Cardinality({i \in 1..Len(table) : table[i].owner_id = owner_id})

MaxRiskScore == 100

\* rpc('calculate_owner_risk_score'): the stored procedure rewrites the
\* owner's risk_score from the rows linked to it.
RiskScoreOf(owner_table, link_table, owner_id) ==
    LET n == LinkCount(link_table, owner_id) * 10
    IN  IF n > MaxRiskScore THEN MaxRiskScore ELSE n

calculate_owner_risk_score(owner_table, link_table, owner_id) ==
    [i \in 1..Len(owner_table) |->
        IF owner_table[i].id = owner_id
        THEN [owner_table[i] EXCEPT
                 !.risk_score = RiskScoreOf(owner_table, link_table, owner_id)]
        ELSE owner_table[i]]

\* ---------------------------------------------------------- the state
VARIABLES
    scraped_listings,  \* listing id -> listing row
    detected_owners,   \* owner rows
    owner_listings,    \* link rows
    proc,              \* per invocation of the detect command: its position and
                       \* locals, the groups it entered (attempted), the store and
                       \* RPC calls it made (trace) and the store it started from
    clock,             \* runs started so far; datetime.now() of a run is its number
    failures,          \* store/RPC operations that failed so far
    changes,           \* changes of the listing store so far
    log,               \* one entry per returned run: what it saw, did and returned
    main,              \* the command line program: its arguments, environment,
                       \* position and exit status
    call               \* one application of a function of the module to an input

vars == <<scraped_listings, detected_owners, owner_listings, proc, clock,
          failures, changes, log, main, call>>

Procs == {1, 2}

ListingIdSet == 1..NumListings

\* ----------------------------------------------------- sample listings
Local1 == <<"7", "7", "1", "1", "1", "1", "1", "1", "1">>
Local2 == <<"3", "3", "8", "2", "2", "2", "2", "2", "2">>

Phone1 == <<"+", "2", "2", "1">> \o Local1
Phone2 == <<"+", "2", "2", "1">> \o Local2

NoRawData == [phone |-> None, phoneNumber |-> None, whatsapp |-> None,
              contact_phone |-> None]

\* what a scraper found about the contact: raw_data and host_name
ContactSamples ==
    {[raw_data |-> NoRawData, host_name |-> None],
     [raw_data |-> [NoRawData EXCEPT !.phone = <<"+", "2", "2", "1", " ">> \o Local1],
      host_name |-> <<"A", "w", "a">>],
     [raw_data |-> [NoRawData EXCEPT !.phone = <<"1", "2", "3">>,
                                     !.whatsapp = <<"0">> \o Local1],
      host_name |-> <<" ", "A", "w", "a", " ", "D", " ">>],
     [raw_data |-> [NoRawData EXCEPT !.contact_phone = <<"0", "0", "2", "2", "1">> \o Local2],
      host_name |-> <<" ">>]}

\* what it found about the platform: platform, host_id and price
PlatformSamples ==
    {[platform |-> "airbnb", host_id |-> "h1", price |-> 100],
     [platform |-> "booking", host_id |-> "h1", price |-> 50],
     [platform |-> "expat_dakar", host_id |-> "h1", price |-> 0]}

ListingRow(id, contact, platform) ==
    [id |-> id,
     platform |-> platform.platform,
     host_id |-> platform.host_id,
     host_name |-> contact.host_name,
     price |-> platform.price,
     raw_data |-> contact.raw_data,
     is_active |-> TRUE]

ListingTablesOf(contacts, platforms) ==
    {[id \in ListingIdSet |-> ListingRow(id, c[id], h[id])] :
        c \in [ListingIdSet -> contacts],
        h \in [ListingIdSet -> platforms]}

ListingTables == ListingTablesOf(ContactSamples, PlatformSamples)

\* the listing tables of the concurrent runs: phone signals, one platform
RaceContacts == {c \in ContactSamples : c.raw_data.contact_phone = None}

RacePlatforms == {h \in PlatformSamples : h.platform = "airbnb"}

\* --------------------------------------------------------------- Init
ZeroStats == [total_owners |-> 0, multi_property |-> 0,
              new_owners |-> 0, updated_owners |-> 0]

IdleProc ==
    [pc |-> "idle", now |-> 0, listings |-> <<>>, owner_groups |-> <<>>,
     g |-> 0, k |-> 0, existing |-> 0, owner_id |-> 0, stats |-> ZeroStats,
     attempted |-> <<>>, trace |-> <<>>, owners0 |-> <<>>, links0 |-> <<>>]

EnvNames == {"SUPABASE_URL", "SUPABASE_SERVICE_ROLE_KEY"}

\* the program after create_client, about to call detect_owners
Connected ==
    [command |-> "detect", installed |-> TRUE, env |-> [name \in EnvNames |-> "set"],
     pc |-> "connected", client |-> TRUE, exit_code |-> -1, report |-> None]

NoCall == [fn |-> "none", arg |-> None, done |-> FALSE, result |-> None]

EmptyStore ==
    /\ detected_owners = <<>>
    /\ owner_listings = <<>>
    /\ proc = [p \in Procs |-> IdleProc]
    /\ clock = 0
    /\ failures = 0
    /\ changes = 0
    /\ log = <<>>

Init ==
    /\ scraped_listings \in ListingTables
    /\ EmptyStore
    /\ main = Connected
    /\ call = NoCall

\* ------------------------------------------------------ detect_owners
\* select('*').eq('is_active', True): the active listings, by id
RECURSIVE ActiveFrom(_, _)
ActiveFrom(table, id) ==
    IF id > NumListings THEN <<>>
    ELSE (IF table[id].is_active THEN <<table[id]>> ELSE <<>>)
         \o ActiveFrom(table, id + 1)

ActiveListings(table) == ActiveFrom(table, 1)

Resting(p) == proc[p].pc \in {"idle", "done", "aborted"}

\* one store or RPC call of a run: the group, the call, the owner and listing
\* it was about (0: none) and whether it returned
Event(r, op, owner_id, listing_id, ok) ==
    [g |-> r.g, op |-> op, owner_id |-> owner_id, listing_id |-> listing_id, ok |-> ok]

Raised(r) == SelectSeq(r.trace, LAMBDA e : ~e.ok)

\* r: a run (a process record or its log entry)
Errors(r) == Len(Raised(r))

CurrentGroup(r) == r.owner_groups[r.g]

\* The head of the for loop of save_owners_to_db: iteration g, or the return.
EnterGroupOrAbort(r, g) ==
    IF g > Len(r.owner_groups) \/ Errors(r) > 0
    THEN [r EXCEPT !.pc = "return", !.g = g]
    ELSE [r EXCEPT !.pc = IF /\ r.owner_groups[g].match_type = "phone"
                             /\ r.owner_groups[g].identifier # None
                          THEN "lookup" ELSE "write",
                   !.g = g, !.k = 1, !.existing = 0, !.owner_id = 0,
                   !.attempted = Append(@, g)]

EnterGroup(r, g) ==
    IF g > Len(r.owner_groups)
    THEN [r EXCEPT !.pc = "return", !.g = g]
    ELSE [r EXCEPT !.pc = IF /\ r.owner_groups[g].match_type = "phone"
                             /\ r.owner_groups[g].identifier # None
                          THEN "lookup" ELSE "write",
                   !.g = g, !.k = 1, !.existing = 0, !.owner_id = 0,
                   !.attempted = Append(@, g)]

\* detect_owners up to the call of save_owners_to_db
Fetch(p) ==
    /\ Resting(p)
    /\ clock < MaxRuns
    /\ clock' = clock + 1
    /\ LET listings == ActiveListings(scraped_listings)
           r == [IdleProc EXCEPT !.now = clock + 1,
                                 !.listings = listings,
                                 !.owner_groups = OwnerGroups(listings),
                                 !.owners0 = detected_owners,
                                 !.links0 = owner_listings]
       IN  proc' = [proc EXCEPT ![p] = EnterGroup(r, 1)]
    /\ UNCHANGED <<main, call, scraped_listings, detected_owners, owner_listings,
                   failures, changes, log>>

\* the read of scraped_listings raises: nothing catches it
FetchError(p) ==
    /\ Resting(p)
    /\ clock < MaxRuns
    /\ failures < MaxFailures
    /\ clock' = clock + 1
    /\ failures' = failures + 1
    /\ proc' = [proc EXCEPT ![p] = [IdleProc EXCEPT !.pc = "aborted",
                                                    !.now = clock + 1]]
    /\ UNCHANGED <<main, call, scraped_listings, detected_owners, owner_listings, changes, log>>

\* -------------------------------------------------- save_owners_to_db
Lookup(p) ==
    /\ proc[p].pc = "lookup"
    /\ LET found == OwnersByPhone(detected_owners, CurrentGroup(proc[p]).identifier)
       IN  IF found = {}
           THEN proc' = [proc EXCEPT ![p].pc = "write", ![p].existing = 0,
                                     ![p].trace = Append(@, Event(proc[p], "lookup", 0, 0, TRUE))]
           ELSE \E id \in found :
                    proc' = [proc EXCEPT ![p].pc = "write", ![p].existing = id,
                                         ![p].trace = Append(@, Event(proc[p], "lookup", id, 0, TRUE))]
    /\ UNCHANGED <<main, call, scraped_listings, detected_owners, owner_listings, clock,
                   failures, changes, log>>

UpdateExisting(p) ==
    /\ proc[p].pc = "write"
    /\ proc[p].existing # 0
    /\ detected_owners' =
           UpdateOwner(detected_owners, proc[p].existing,
                       OwnerDataFor(CurrentGroup(proc[p]), proc[p].now))
    /\ proc' = [proc EXCEPT ![p].pc = "link",
                            ![p].owner_id = proc[p].existing,
                            ![p].stats.updated_owners = @ + 1,
                            ![p].trace = Append(@, Event(proc[p], "update", proc[p].existing, 0, TRUE))]
    /\ UNCHANGED <<main, call, scraped_listings, owner_listings, clock, failures, changes, log>>

CreateNew(p) ==
    /\ proc[p].pc = "write"
    /\ proc[p].existing = 0
    /\ detected_owners' =
           InsertOwner(detected_owners,
                       OwnerDataFor(CurrentGroup(proc[p]), proc[p].now)
                           @@ [first_seen_at |-> proc[p].now])
    /\ proc' = [proc EXCEPT ![p].pc = "link",
                            ![p].owner_id = NextOwnerId(detected_owners),
                            ![p].stats.new_owners = @ + 1,
                            ![p].trace = Append(@, Event(proc[p], "insert",
                                                         NextOwnerId(detected_owners), 0, TRUE))]
    /\ UNCHANGED <<main, call, scraped_listings, owner_listings, clock, failures, changes, log>>

\* the links are left for after the risk score
LinkListingDeferred(p) ==
    /\ proc[p].pc = "link"
    /\ proc' = [proc EXCEPT ![p].pc = "rpc"]
    /\ UNCHANGED <<main, call, scraped_listings, detected_owners, owner_listings, clock,
                   failures, changes, log>>

LinkData(r) ==
    [owner_id |-> r.owner_id,
     scraped_listing_id |-> CurrentGroup(r).listings[r.k].id,
     match_type |-> CurrentGroup(r).match_type,
     confidence |-> Confidence(CurrentGroup(r).match_type)]

LinkListing(p) ==
    /\ proc[p].pc = "link"
    /\ owner_listings' = UpsertLink(owner_listings, LinkData(proc[p]))
    /\ proc' = [proc EXCEPT ![p].k = @ + 1,
                            ![p].pc = IF proc[p].k < Len(CurrentGroup(proc[p]).listings)
                                      THEN "link" ELSE "rpc",
                            ![p].trace = Append(@, Event(proc[p], "link", proc[p].owner_id,
                                                         LinkData(proc[p]).scraped_listing_id, TRUE))]
    /\ UNCHANGED <<main, call, scraped_listings, detected_owners, clock, failures, changes, log>>

\* every group processed to the end counted as a multi-property owner
CountedAnySize(r) ==
    [r EXCEPT !.trace = Append(@, Event(r, "rpc", r.owner_id, 0, TRUE)),
              !.stats.total_owners = @ + 1,
              !.stats.multi_property = @ + 1]

Counted(r) ==
    [r EXCEPT !.trace = Append(@, Event(r, "rpc", r.owner_id, 0, TRUE)),
              !.stats.total_owners = @ + 1,
              !.stats.multi_property =
                  IF Len(CurrentGroup(r).listings) > 1 THEN @ + 1 ELSE @]

RiskScore(p) ==
    /\ proc[p].pc = "rpc"
    /\ detected_owners' =
           calculate_owner_risk_score(detected_owners, owner_listings, proc[p].owner_id)
    /\ proc' = [proc EXCEPT ![p] = EnterGroup(Counted(proc[p]), proc[p].g + 1)]
    /\ UNCHANGED <<main, call, scraped_listings, owner_listings, clock, failures, changes, log>>

\* the call a run is about to make, raising
FailedCall(r) ==
    Event(r,
          IF r.pc = "write" THEN (IF r.existing # 0 THEN "update" ELSE "insert") ELSE r.pc,
          IF r.pc = "write" THEN r.existing ELSE r.owner_id,
          IF r.pc = "link" THEN LinkData(r).scraped_listing_id ELSE 0,
          FALSE)

\* a link upsert that raises is passed over and the iteration goes on
StoreErrorLinkSkipped(p) ==
    /\ proc[p].pc \in {"lookup", "write", "link", "rpc"}
    /\ failures < MaxFailures
    /\ failures' = failures + 1
    /\ LET r == [proc[p] EXCEPT !.trace = Append(@, FailedCall(proc[p]))]
       IN  proc' = [proc EXCEPT ![p] =
                       IF r.pc = "link"
                       THEN [r EXCEPT !.k = @ + 1,
                                      !.pc = IF r.k < Len(CurrentGroup(r).listings)
                                             THEN "link" ELSE "rpc"]
                       ELSE EnterGroup(r, r.g + 1)]
    /\ UNCHANGED <<main, call, scraped_listings, detected_owners, owner_listings, clock,
                   changes, log>>

\* the counters are raised before the owner write is made
StoreErrorCounted(p) ==
    /\ proc[p].pc \in {"lookup", "write", "link", "rpc"}
    /\ failures < MaxFailures
    /\ failures' = failures + 1
    /\ LET r == [proc[p] EXCEPT !.trace = Append(@, FailedCall(proc[p]))]
           counted == IF r.pc # "write" THEN r
                      ELSE IF r.existing # 0
                           THEN [r EXCEPT !.stats.updated_owners = @ + 1]
                           ELSE [r EXCEPT !.stats.new_owners = @ + 1]
       IN  proc' = [proc EXCEPT ![p] = EnterGroup(counted, proc[p].g + 1)]
    /\ UNCHANGED <<main, call, scraped_listings, detected_owners, owner_listings, clock,
                   changes, log>>

\* except Exception: any store or RPC call of the iteration raises; the
\* handler prints and the loop goes on with the next group.
StoreError(p) ==
    /\ proc[p].pc \in {"lookup", "write", "link", "rpc"}
    /\ failures < MaxFailures
    /\ failures' = failures + 1
    /\ proc' = [proc EXCEPT ![p] =
                   EnterGroup([proc[p] EXCEPT !.trace = Append(@, FailedCall(proc[p]))],
                              proc[p].g + 1)]
    /\ UNCHANGED <<main, call, scraped_listings, detected_owners, owner_listings, clock,
                   changes, log>>

LogEntry(p) ==
    [proc |-> p,
     run |-> proc[p].now,
     listings |-> proc[p].listings,
     owner_groups |-> proc[p].owner_groups,
     attempted |-> proc[p].attempted,
     trace |-> proc[p].trace,
     stats |-> proc[p].stats,
     owners0 |-> proc[p].owners0,
     links0 |-> proc[p].links0,
     owners |-> detected_owners,
     links |-> owner_listings]

\* return stats
Return(p) ==
    /\ proc[p].pc = "return"
    /\ proc' = [proc EXCEPT ![p].pc = "done"]
    /\ log' = Append(log, LogEntry(p))
    /\ UNCHANGED <<main, call, scraped_listings, detected_owners, owner_listings, clock,
                   failures, changes>>

\* save_owners_to_db as a function: the store a run without a failure leaves,
\* from group i on
RECURSIVE LinkAll(_, _, _, _)
LinkAll(link_table, group, owner_id, k) ==
    IF k > Len(group.listings) THEN link_table
    ELSE LinkAll(UpsertLink(link_table,
                            [owner_id |-> owner_id,
                             scraped_listing_id |-> group.listings[k].id,
                             match_type |-> group.match_type,
                             confidence |-> Confidence(group.match_type)]),
                 group, owner_id, k + 1)

RECURSIVE SaveAll(_, _, _, _, _)
SaveAll(owner_table, link_table, groups, i, now) ==
    IF i > Len(groups) THEN [owners |-> owner_table, links |-> link_table]
    ELSE LET group == groups[i]
             found == IF group.match_type = "phone" /\ group.identifier # None
                      THEN OwnersByPhone(owner_table, group.identifier)
                      ELSE {}
             existing == IF found = {} THEN 0 ELSE CHOOSE id \in found : TRUE
             owner_id == IF existing # 0 THEN existing ELSE NextOwnerId(owner_table)
             written == IF existing # 0
                        THEN UpdateOwner(owner_table, existing, OwnerDataFor(group, now))
                        ELSE InsertOwner(owner_table,
                                         OwnerDataFor(group, now)
                                             @@ [first_seen_at |-> now])
             linked == LinkAll(link_table, group, owner_id, 1)
         IN  SaveAll(calculate_owner_risk_score(written, linked, owner_id),
                     linked, groups, i + 1, now)

\* ------------------------------------------------- the listing store
\* A scraper switches a listing's is_active.  A run reads the listings once,
\* at its start, so a change during a run acts like one right after it, and
\* a change before the first run like another initial listing table.
ListingChange(id) ==
    /\ \A p \in Procs : Resting(p)
    /\ clock >= 1
    /\ changes < MaxChanges
    /\ changes' = changes + 1
    /\ scraped_listings' = [scraped_listings EXCEPT ![id].is_active = ~@]
    /\ UNCHANGED <<main, call, detected_owners, owner_listings, proc, clock, failures, log>>

\* ------------------------------------------------- the specifications
\* Sequential runs: one invocation of the command at a time.
Step(p) ==
    \/ Fetch(p)
    \/ FetchError(p)
    \/ Lookup(p)
    \/ UpdateExisting(p)
    \/ CreateNew(p)
    \/ LinkListing(p)
    \/ RiskScore(p)
    \/ StoreError(p)
    \/ Return(p)

Next == Step(1)

Spec == Init /\ [][Next]_vars

\* Sequential runs over a listing store that changes between them.
NextChurn ==
    \/ Step(1)
    \/ \E id \in ListingIdSet : ListingChange(id)

SpecChurn == Init /\ [][NextChurn]_vars

\* Two invocations of the detect command at once against the same store:
\* nothing in the code keeps them apart, each store call is one step.
InitRace ==
    /\ Init
    /\ scraped_listings \in ListingTablesOf(RaceContacts, RacePlatforms)

StepRace(p) ==
    \/ Fetch(p)
    \/ Lookup(p)
    \/ UpdateExisting(p)
    \/ CreateNew(p)
    \/ LinkListing(p)
    \/ RiskScore(p)
    \/ Return(p)

NextRace == \E p \in Procs : StepRace(p)

SpecRace == InitRace /\ [][NextRace]_vars

\* One owner under several spellings: the listings, active or not, all carry
\* the phone number 1, written in different ways in different fields.
OneOwnerContacts ==
    {[raw_data |-> [NoRawData EXCEPT !.phone = <<"+", "2", "2", "1", " ">> \o Local1],
      host_name |-> <<"A", "w", "a">>],
     [raw_data |-> [NoRawData EXCEPT !.phone = <<"1", "2", "3">>,
                                     !.whatsapp = <<"0">> \o Local1],
      host_name |-> <<" ", "A", "w", "a", " ", "D", " ">>],
     [raw_data |-> [NoRawData EXCEPT !.contact_phone = <<"0", "0", "2", "2", "1">> \o Local1],
      host_name |-> <<" ">>],
     [raw_data |-> [NoRawData EXCEPT !.phoneNumber = Local1],
      host_name |-> None]}

InitOneOwner ==
    /\ \E table \in ListingTablesOf(OneOwnerContacts, RacePlatforms) :
       \E active \in [ListingIdSet -> BOOLEAN] :
           scraped_listings =
               [id \in ListingIdSet |-> [table[id] EXCEPT !.is_active = active[id]]]
    /\ EmptyStore
    /\ main = Connected
    /\ call = NoCall

SpecOneOwner == InitOneOwner /\ [][Next]_vars

\* Listings with and without each signal: a phone or none, a host id or
\* none, on a platform that exposes host ids or on one that does not.
SignalContacts ==
    {[raw_data |-> NoRawData, host_name |-> None],
     [raw_data |-> [NoRawData EXCEPT !.whatsapp = <<"0">> \o Local1],
      host_name |-> <<"A", "w", "a">>]}

SignalPlatforms ==
    {[platform |-> "airbnb", host_id |-> "h1", price |-> 100],
     [platform |-> "airbnb", host_id |-> "", price |-> 100],
     [platform |-> "booking", host_id |-> "h1", price |-> 50],
     [platform |-> "expat_dakar", host_id |-> "h1", price |-> 0],
     [platform |-> "expat_dakar", host_id |-> "", price |-> 0]}

InitSignals ==
    /\ scraped_listings \in ListingTablesOf(SignalContacts, SignalPlatforms)
    /\ EmptyStore
    /\ main = Connected
    /\ call = NoCall

SpecSignals == InitSignals /\ [][Next]_vars

\* Runs over a listing store that returns the active listings in any order:
\* the select of detect_owners asks for none.
Orders(rows) ==
    {[i \in 1..Len(rows) |-> rows[f[i]]] : f \in Permutations(1..Len(rows))}

FetchAnyOrder(p) ==
    /\ Resting(p)
    /\ clock < MaxRuns
    /\ clock' = clock + 1
    /\ \E listings \in Orders(ActiveListings(scraped_listings)) :
           LET r == [IdleProc EXCEPT !.now = clock + 1,
                                     !.listings = listings,
                                     !.owner_groups = OwnerGroups(listings),
                                     !.owners0 = detected_owners,
                                     !.links0 = owner_listings]
           IN  proc' = [proc EXCEPT ![p] = EnterGroup(r, 1)]
    /\ UNCHANGED <<main, call, scraped_listings, detected_owners, owner_listings,
                   failures, changes, log>>

\* two phones or none, two host keys
OrderContacts ==
    {[raw_data |-> NoRawData, host_name |-> None],
     [raw_data |-> [NoRawData EXCEPT !.phone = <<"+", "2", "2", "1", " ">> \o Local1],
      host_name |-> <<"A", "w", "a">>],
     [raw_data |-> [NoRawData EXCEPT !.contact_phone = <<"0", "0", "2", "2", "1">> \o Local2],
      host_name |-> <<" ">>]}

OrderPlatforms ==
    {[platform |-> "airbnb", host_id |-> "h1", price |-> 100],
     [platform |-> "booking", host_id |-> "h1", price |-> 50]}

InitOrder ==
    /\ scraped_listings \in ListingTablesOf(OrderContacts, OrderPlatforms)
    /\ EmptyStore
    /\ main = Connected
    /\ call = NoCall

NextOrder ==
    \/ FetchAnyOrder(1)
    \/ FetchError(1)
    \/ Lookup(1)
    \/ UpdateExisting(1)
    \/ CreateNew(1)
    \/ LinkListing(1)
    \/ RiskScore(1)
    \/ StoreError(1)
    \/ Return(1)

SpecOrder == InitOrder /\ [][NextOrder]_vars

\* ----------------------------------------------------------- __main__
\* One invocation of the program from its start: the command, whether
\* supabase-py is installed, and the environment after load_dotenv.
Commands == {"detect", "report"}

Environments == UNION {[names -> {"", "set"}] : names \in SUBSET EnvNames}

\* os.environ.get(name): None when unset; None and '' are both the empty
\* string here, being told apart nowhere
EnvGet(env, name) == IF name \in DOMAIN env THEN env[name] ELSE ""

Started(command, installed, env) ==
    [command |-> command, installed |-> installed, env |-> env,
     pc |-> "start", client |-> FALSE, exit_code |-> -1, report |-> None]

\* the store an earlier, failure-free detect over the listings has left
EarlierStore(table) ==
    SaveAll(<<>>, <<>>, OwnerGroups(ActiveListings(table)), 1, 0)

InitMain ==
    /\ scraped_listings \in ListingTablesOf(RaceContacts, RacePlatforms)
    /\ \/ detected_owners = <<>> /\ owner_listings = <<>>
       \/ /\ detected_owners = EarlierStore(scraped_listings).owners
          /\ owner_listings = EarlierStore(scraped_listings).links
    /\ proc = [p \in Procs |-> IdleProc]
    /\ clock = 0
    /\ failures = 0
    /\ changes = 0
    /\ log = <<>>
    /\ \E command \in Commands, installed \in BOOLEAN, env \in Environments :
           main = Started(command, installed, env)
    /\ call = NoCall

Exit(status) == [main EXCEPT !.pc = "exited", !.exit_code = status]

\* from supabase import create_client, sys.exit(1) on ImportError
ImportSupabase ==
    /\ main.pc = "start"
    /\ main' = IF main.installed THEN [main EXCEPT !.pc = "env"] ELSE Exit(1)
    /\ UNCHANGED <<call, scraped_listings, detected_owners, owner_listings, proc, clock,
                   failures, changes, log>>

\* both are empty or unset
NeitherCredential(supabase_url, supabase_key) == supabase_url = "" /\ supabase_key = ""

\* not supabase_url or not supabase_key
MissingCredential(supabase_url, supabase_key) == supabase_url = "" \/ supabase_key = ""

\* the credentials test, then create_client
CheckCredentials ==
    /\ main.pc = "env"
    /\ main' = IF MissingCredential(EnvGet(main.env, "SUPABASE_URL"),
                                    EnvGet(main.env, "SUPABASE_SERVICE_ROLE_KEY"))
                THEN Exit(1)
                ELSE [main EXCEPT !.pc = "connected", !.client = TRUE]
    /\ UNCHANGED <<call, scraped_listings, detected_owners, owner_listings, proc, clock,
                   failures, changes, log>>

Running(command) == main.pc = "connected" /\ main.command = command

\* stats = detect_owners(supabase)
StartDetect(p) ==
    /\ Running("detect")
    /\ proc[p].pc = "idle"
    /\ Fetch(p)

StartDetectError(p) ==
    /\ Running("detect")
    /\ proc[p].pc = "idle"
    /\ FetchError(p)

\* the statistics are printed; an exception of the fetch ends the program
EndDetect(p) ==
    /\ Running("detect")
    /\ proc[p].pc \in {"done", "aborted"}
    /\ main' = Exit(IF proc[p].pc = "done" THEN 0 ELSE 1)
    /\ UNCHANGED <<call, scraped_listings, detected_owners, owner_listings, proc, clock,
                   failures, changes, log>>

\* ----------------------------------------------- generate_owner_report
ReportLimit == 100
TopOperators == 10
HighRisk == 50

\* the rows are handed on as they are
Unlimited(rows, n) == rows

\* .limit(n) and owners[:n]
Limited(rows, n) == SubSeq(rows, 1, IF Len(rows) < n THEN Len(rows) ELSE n)

\* the orders in which a set of rows can be listed
RECURSIVE AnyOrders(_)
AnyOrders(rows) ==
    IF rows = {} THEN {<<>>}
    ELSE UNION {{<<row>> \o order : order \in AnyOrders(rows \ {row})} : row \in rows}

\* order('risk_score', desc=True): the orders the store may answer with for
\* the rows of a risk_score from low to high; rows of equal risk_score come
\* in any order
RECURSIVE RiskOrders(_, _, _)
RiskOrders(table, low, high) ==
    LET rows == {row \in SeqToSet(table) : row.risk_score \in low..high}
        middle == (low + high) \div 2
    IN  IF rows = {} THEN {<<>>}
        ELSE IF low = high THEN AnyOrders(rows)
        ELSE {above \o below : above \in RiskOrders(table, middle + 1, high),
                               below \in RiskOrders(table, low, middle)}

SortedByRisk(table) ==
    IF table = <<>> THEN {<<>>}
    ELSE LET risks == {table[i].risk_score : i \in 1..Len(table)}
         IN  RiskOrders(table,
                        CHOOSE low \in risks : \A risk \in risks : low <= risk,
                        CHOOSE high \in risks : \A risk \in risks : high >= risk)

RECURSIVE SumListingCount(_)
SumListingCount(owners) ==
    IF owners = <<>> THEN 0
    ELSE Head(owners).listing_count + SumListingCount(Tail(owners))

\* sum / total_listings if total_listings else 0, as a fraction
CoverageRate(owners, total_listings) ==
    IF total_listings # 0
    THEN [num |-> SumListingCount(owners), den |-> total_listings]
    ELSE [num |-> 0, den |-> 1]

Operator(owner) ==
    [phone |-> owner.primary_phone,
     names |-> owner.names,
     platforms |-> owner.platforms,
     listing_count |-> owner.listing_count,
     risk_score |-> owner.risk_score,
     estimated_monthly_revenue |-> owner.estimated_monthly_revenue]

\* the report made of the owners read (ordered) and the count of active
\* listings; owners_read keeps the ids of the rows read
generate_owner_report(ordered, total_listings) ==
    LET owners == Limited(ordered, ReportLimit)
        top == Limited(owners, TopOperators)
    IN  [total_owners |-> Len(owners),
         multi_property_owners |->
             Len(SelectSeq(owners, LAMBDA o : o.listing_count > 1)),
         high_risk_owners |->
             Len(SelectSeq(owners, LAMBDA o : o.risk_score >= HighRisk)),
         total_listings |-> total_listings,
         coverage_rate |-> CoverageRate(owners, total_listings),
         top_operators |-> [i \in 1..Len(top) |-> Operator(top[i])],
         owners_read |-> [i \in 1..Len(owners) |-> owners[i].id]]

\* report = generate_owner_report(supabase), printed
Report ==
    /\ Running("report")
    /\ \E ordered \in SortedByRisk(detected_owners) :
           main' = [Exit(0) EXCEPT !.report =
                       generate_owner_report(ordered,
                                             Len(ActiveListings(scraped_listings)))]
    /\ UNCHANGED <<call, scraped_listings, detected_owners, owner_listings, proc, clock,
                   failures, changes, log>>

\* Stores of many owners, as many runs leave them: row i with a risk score
\* of its own (risks 1) or with the two lowest scores equal (risks 2).
StoreSizes == {0, 1, 2, 9, 10, 11, 99, 100, 101}

SampleRisk(i, risks) ==
    IF risks = 2 /\ i = 71 THEN 0 ELSE (i * 37) % 101

SampleOwner(i, risks) ==
    [id |-> i,
     names |-> {},
     host_ids |-> {<<"airbnb", "h1">>},
     platforms |-> {"airbnb"},
     listing_count |-> (i % 3) + 1,
     active_listing_count |-> (i % 3) + 1,
     unregistered_count |-> (i % 3) + 1,
     registered_count |-> 0,
     avg_price_per_night |-> 100,
     estimated_monthly_revenue |-> 100 * ((i % 3) + 1) * OccupiedNights,
     last_seen_at |-> 0,
     primary_phone |-> NoPhone,
     risk_score |-> SampleRisk(i, risks),
     first_seen_at |-> 0]

InitReport ==
    /\ \E table \in ListingTablesOf(RaceContacts, RacePlatforms) :
       \E active \in [ListingIdSet -> BOOLEAN] :
           scraped_listings =
               [id \in ListingIdSet |-> [table[id] EXCEPT !.is_active = active[id]]]
    /\ \/ \E n \in StoreSizes, risks \in {1, 2} :
              /\ detected_owners = [i \in 1..n |-> SampleOwner(i, risks)]
              /\ owner_listings = <<>>
       \/ /\ detected_owners = EarlierStore(scraped_listings).owners
          /\ owner_listings = EarlierStore(scraped_listings).links
    /\ proc = [p \in Procs |-> IdleProc]
    /\ clock = 0
    /\ failures = 0
    /\ changes = 0
    /\ log = <<>>
    /\ main = [Connected EXCEPT !.command = "report"]
    /\ call = NoCall

NextReport == Report

SpecReport == InitReport /\ [][NextReport]_vars

NextMain ==
    \/ ImportSupabase
    \/ CheckCredentials
    \/ StartDetect(1)
    \/ StartDetectError(1)
    \/ Lookup(1)
    \/ UpdateExisting(1)
    \/ CreateNew(1)
    \/ LinkListing(1)
    \/ RiskScore(1)
    \/ StoreError(1)
    \/ Return(1)
    \/ EndDetect(1)
    \/ Report

SpecMain == InitMain /\ [][NextMain]_vars

\* ------------------------------------------------- the functions alone
\* Subscriber numbers: two valid ones, the one of the docstring's format, one
\* with a wrong first digit, one too short, one too long, and 123.
LocalSamples ==
    {Local1, Local2,
     <<"7", "7", "1", "2", "3", "4", "5", "6", "7">>,
     <<"9", "9", "1", "2", "3", "4", "5", "6", "7">>,
     <<"7", "7", "1", "2", "3", "4", "5", "6">>,
     <<"7", "7", "1", "2", "3", "4", "5", "6", "7", "8">>,
     <<"1", "2", "3">>}

\* What is written before the subscriber number.
PrefixSamples ==
    {<<>>, <<"0">>, <<"2", "2", "1">>, <<"0", "0", "2", "2", "1">>,
     <<"+", "2", "2", "1">>, <<"0", "0">>, <<"0", "2", "2", "1">>,
     <<"2", "2", "1", "0">>}

\* A separator and the number of characters between two of them (0: none).
SeparatorSamples ==
    {[sep |-> " ", every |-> 0], [sep |-> " ", every |-> 2],
     [sep |-> "-", every |-> 3], [sep |-> "x", every |-> 5],
     [sep |-> "sup2", every |-> 8]}

RECURSIVE WithSeparators(_, _, _)
WithSeparators(s, sep, every) ==
    IF every = 0 \/ Len(s) < every THEN s
    ELSE SubSeq(s, 1, every) \o <<sep>>
         \o WithSeparators(SubSeq(s, every + 1, Len(s)), sep, every)

PhoneInputs ==
    {WithSeparators(prefix \o local, style.sep, style.every) :
        prefix \in PrefixSamples, local \in LocalSamples, style \in SeparatorSamples}
    \cup {None, <<"+", " ", "-">>}

\* What one field of raw_data holds: nothing, a number that is not valid, two
\* valid ones.
FieldSamples ==
    {None, <<"1", "2", "3">>, <<"0">> \o Local1,
     <<"0", "0", "2", "2", "1", " ">> \o Local2}

\* raw_data with all four fields, with one field only, with none of them
RawDataInputs ==
    [SeqToSet(phone_fields) -> FieldSamples]
    \cup {[whatsapp |-> v] : v \in FieldSamples}
    \cup {[email |-> <<"a", "@", "b">>]}

ListingOf(raw_data) ==
    ListingRow(1, [raw_data |-> raw_data, host_name |-> None],
               [platform |-> "expat_dakar", host_id |-> "", price |-> 0])

ListingInputs == {ListingOf(raw_data) : raw_data \in RawDataInputs}

\* a listing without raw_data: listing.get('raw_data') or {}
ListingNoRawData == ListingOf(None)

PriceSamples == {-5, 0, 50, 75, 100, 150}

\* groups of one to NumListings listings with their prices
RECURSIVE PricedListings(_)
PricedListings(prices) ==
    IF prices = <<>> THEN <<>>
    ELSE Append(PricedListings(SubSeq(prices, 1, Len(prices) - 1)),
                ListingRow(Len(prices),
                           [raw_data |-> [NoRawData EXCEPT !.phone = Local1],
                            host_name |-> None],
                           [platform |-> "expat_dakar", host_id |-> "",
                            price |-> prices[Len(prices)]]))

GroupInputs ==
    {[match_type |-> "phone",
      identifier |-> Phone1,
      listings |-> PricedListings(prices),
      listing_ids |-> ListingIds(PricedListings(prices))] :
        prices \in UNION {[1..n -> PriceSamples] : n \in 1..NumListings}}

CallOf(fn, arg) == [fn |-> fn, arg |-> arg, done |-> FALSE, result |-> None]

InitPure ==
    /\ scraped_listings = <<>>
    /\ EmptyStore
    /\ main = Connected
    /\ \/ \E phone \in PhoneInputs : call = CallOf("normalize_phone", phone)
       \/ \E listing \in ListingInputs :
              call = CallOf("extract_phone_from_listing", listing)
       \/ call = CallOf("extract_phone_from_listing", ListingNoRawData)
       \/ \E group \in GroupInputs : call = CallOf("owner_data", group)

Returned(result) ==
    /\ call' = [call EXCEPT !.done = TRUE, !.result = result]
    /\ UNCHANGED <<main, scraped_listings, detected_owners, owner_listings, proc, clock,
                   failures, changes, log>>

CallNormalizePhone ==
    /\ call.fn = "normalize_phone"
    /\ ~call.done
    /\ Returned(normalize_phone(call.arg))

CallExtractPhone ==
    /\ call.fn = "extract_phone_from_listing"
    /\ ~call.done
    /\ Returned(extract_phone_from_listing(call.arg))

\* the owner_data one iteration of save_owners_to_db builds
CallOwnerData ==
    /\ call.fn = "owner_data"
    /\ ~call.done
    /\ Returned(OwnerDataFor(call.arg, clock))

NextPure ==
    \/ CallNormalizePhone
    \/ CallExtractPhone
    \/ CallOwnerData

SpecPure == InitPure /\ [][NextPure]_vars

\* ---------------------------------------------------------- the claims
Range(f) == {f[i] : i \in DOMAIN f}

GroupIdSet(group) == SeqToSet(group.listing_ids)

InRun(p) == proc[p].pc \in {"lookup", "write", "link", "rpc", "return", "done"}

PhoneRows(table) == {row \in Range(table) : row.primary_phone # NoPhone}

HostRows(table) == {row \in Range(table) : row.primary_phone = NoPhone}

LinkKeys(table) == {<<row.owner_id, row.scraped_listing_id>> : row \in Range(table)}

LinksOf(table, owner_id) == {row \in Range(table) : row.owner_id = owner_id}

\* C1: within one run no listing id is in the listing_ids of two owner groups
\* (nor twice in one), and a host-id group holds no listing that a phone
\* group claimed.
C1_GroupsDisjoint ==
    \A p \in Procs :
        LET groups == proc[p].owner_groups
        IN  /\ \A i, j \in 1..Len(groups) :
                   i # j => GroupIdSet(groups[i]) \cap GroupIdSet(groups[j]) = {}
            /\ \A i \in 1..Len(groups) :
                   /\ Cardinality(GroupIdSet(groups[i])) = Len(groups[i].listing_ids)
                   /\ groups[i].match_type = "host_id" =>
                          \A j \in 1..Len(groups) :
                              groups[j].match_type = "phone" =>
                                  GroupIdSet(groups[i]) \cap GroupIdSet(groups[j]) = {}

\* a run whose host-id group shares its platform:host_id with a listing that a
\* phone group claimed
C1_Witness ==
    \E p \in Procs :
        LET groups == proc[p].owner_groups
        IN  \E i, j \in 1..Len(groups) :
                /\ groups[i].match_type = "phone"
                /\ groups[j].match_type = "host_id"
                /\ \E k \in 1..Len(groups[i].listings) :
                       HostKey(groups[i].listings[k]) = groups[j].identifier

\* C2: of two listings of a run with the same platform:host_id, A with a valid
\* phone and B without, A is in the phone group of its normalized phone only,
\* B in the host-id group of platform:host_id only, and no owner id is linked
\* to both by that run.
GroupsHolding(groups, id) == {i \in 1..Len(groups) : id \in GroupIdSet(groups[i])}

LinkedOwners(r, id) ==
    {e.owner_id : e \in {x \in Range(r.trace) : x.op = "link" /\ x.ok /\ x.listing_id = id}}

PrecedencePair(r, a, b) ==
    /\ a \in 1..Len(r.listings)
    /\ b \in 1..Len(r.listings)
    /\ HostKey(r.listings[a]) # None
    /\ HostKey(r.listings[a]) = HostKey(r.listings[b])
    /\ extract_phone_from_listing(r.listings[a]) # None
    /\ extract_phone_from_listing(r.listings[b]) = None

C2_Precedence ==
    \A p \in Procs :
        InRun(p) =>
            LET r == proc[p]
                groups == r.owner_groups
            IN  \A a, b \in 1..Len(r.listings) :
                    PrecedencePair(r, a, b) =>
                        /\ \E i \in 1..Len(groups) :
                               /\ GroupsHolding(groups, r.listings[a].id) = {i}
                               /\ groups[i].match_type = "phone"
                               /\ groups[i].identifier =
                                      extract_phone_from_listing(r.listings[a])
                        /\ \E j \in 1..Len(groups) :
                               /\ GroupsHolding(groups, r.listings[b].id) = {j}
                               /\ groups[j].match_type = "host_id"
                               /\ groups[j].identifier = HostKey(r.listings[b])
                        /\ LinkedOwners(r, r.listings[a].id)
                               \cap LinkedOwners(r, r.listings[b].id) = {}

\* a returned run that linked both listings of such a pair
C2_Witness ==
    \E p \in Procs :
        /\ proc[p].pc = "done"
        /\ \E a, b \in 1..Len(proc[p].listings) :
               /\ PrecedencePair(proc[p], a, b)
               /\ LinkedOwners(proc[p], proc[p].listings[a].id) # {}
               /\ LinkedOwners(proc[p], proc[p].listings[b].id) # {}

\* C3: after one run against a store that held no owner and no link, every
\* listing id is in at most one owner_listings row.
C3_OneLinkPerListing ==
    \A n \in 1..Len(log) :
        (log[n].owners0 = <<>> /\ log[n].links0 = <<>>) =>
            \A i, j \in 1..Len(log[n].links) :
                log[n].links[i].scraped_listing_id = log[n].links[j].scraped_listing_id
                    => i = j

\* such a run that wrote links for a phone group and for a host-id group
C3_Witness ==
    \E n \in 1..Len(log) :
        /\ log[n].owners0 = <<>>
        /\ log[n].links0 = <<>>
        /\ \E i, j \in 1..Len(log[n].links) :
               /\ log[n].links[i].match_type = "phone"
               /\ log[n].links[j].match_type = "host_id"

\* Two consecutive returned runs, both without a failure, the second started
\* from the store the first left, over the same active listings.
CleanRepeat(n) ==
    /\ n \in 1..(Len(log) - 1)
    /\ Errors(log[n]) = 0
    /\ Errors(log[n + 1]) = 0
    /\ log[n + 1].run = log[n].run + 1
    /\ log[n + 1].listings = log[n].listings
    /\ log[n + 1].owners0 = log[n].owners
    /\ log[n + 1].links0 = log[n].links

RowById(table, id) == CHOOSE row \in Range(table) : row.id = id

\* C4: a failure-free second run over the same listings adds no phone-keyed
\* owner row and leaves each one's listing_count, names, platforms and link
\* rows as the first run left them.
C4_PhoneOwnersIdempotent ==
    \A n \in 1..(Len(log) - 1) :
        CleanRepeat(n) =>
            LET before == log[n]
                after == log[n + 1]
            IN  /\ {row.id : row \in PhoneRows(after.owners)}
                       = {row.id : row \in PhoneRows(before.owners)}
                /\ Cardinality(PhoneRows(after.owners))
                       = Cardinality({row.id : row \in PhoneRows(before.owners)})
                /\ \A row \in PhoneRows(after.owners) :
                       LET old == RowById(before.owners, row.id)
                       IN  /\ row.primary_phone = old.primary_phone
                           /\ row.listing_count = old.listing_count
                           /\ row.names = old.names
                           /\ row.platforms = old.platforms
                           /\ LinksOf(after.links, row.id) = LinksOf(before.links, row.id)
                           /\ LinkCount(after.links, row.id) = LinkCount(before.links, row.id)

\* a repeated run that updated a phone-keyed owner of two listings
C4_Witness ==
    \E n \in 1..(Len(log) - 1) :
        /\ CleanRepeat(n)
        /\ \E row \in PhoneRows(log[n + 1].owners) :
               /\ row.listing_count = 2
               /\ row.last_seen_at = log[n + 1].run
               /\ Cardinality(LinksOf(log[n + 1].links, row.id)) = 2

\* C5: the statistics of a failure-free second run over the same listings have
\* new_owners = 0 and updated_owners = the number of owner groups.
C5_RepeatOnlyUpdates ==
    \A n \in 1..(Len(log) - 1) :
        CleanRepeat(n) =>
            /\ log[n + 1].stats.new_owners = 0
            /\ log[n + 1].stats.updated_owners = Len(log[n + 1].owner_groups)

\* C6: owner_listings never holds two rows with the same
\* (owner_id, scraped_listing_id).
C6_LinkKeyUnique ==
    \A i, j \in 1..Len(owner_listings) :
        SameLink(owner_listings[i], owner_listings[j]) => i = j

\* a run has upserted a link whose key the table already held
C6_Witness ==
    \E p \in Procs :
        \E e \in Range(proc[p].trace) :
            /\ e.op = "link"
            /\ e.ok
            /\ <<e.owner_id, e.listing_id>> \in LinkKeys(proc[p].links0)

\* The first n returned runs are the first n runs started, none failed, and
\* all read the same active listings.
CleanHistory(n) ==
    /\ n \in 1..Len(log)
    /\ \A m \in 1..n :
           /\ log[m].run = m
           /\ Errors(log[m]) = 0
           /\ log[m].listings = log[n].listings

RowsOfHost(table, identifier) ==
    {i \in 1..Len(table) :
        table[i].primary_phone = NoPhone /\ table[i].host_ids = {identifier}}

UpTo(n) == [i \in 1..n |-> i]

MidRun(p) == proc[p].pc \in {"lookup", "write", "link", "rpc", "return"}

C9_EveryGroupAttempted ==
    /\ \A n \in 1..Len(log) : log[n].attempted = UpTo(Len(log[n].owner_groups))
    /\ \A p \in Procs :
           MidRun(p) =>
               /\ proc[p].attempted
                      = UpTo(IF proc[p].pc = "return" THEN proc[p].g - 1 ELSE proc[p].g)
               /\ proc[p].g <= Len(proc[p].owner_groups) + 1
               /\ ENABLED (\/ Lookup(p) \/ UpdateExisting(p) \/ CreateNew(p)
                           \/ LinkListing(p) \/ RiskScore(p) \/ Return(p))

\* a returned run in which a call raised in a group that was not the last
C9_Witness ==
    \E n \in 1..Len(log) :
        \E e \in Range(log[n].trace) :
            /\ ~e.ok
            /\ e.g < Len(log[n].owner_groups)

\* C10: when the risk-score RPC raises, the owner row and every link row of
\* the group are in the store and stay, and the owner rows (risk_score
\* included) are left as they were.
RpcRaises(p) ==
    /\ proc[p].pc = "rpc"
    /\ Errors(proc'[p]) = Errors(proc[p]) + 1

C10_RpcFailureKeepsRows ==
    [][\A p \in Procs :
           RpcRaises(p) =>
               LET r == proc[p]
               IN  /\ detected_owners' = detected_owners
                   /\ owner_listings' = owner_listings
                   /\ \E row \in Range(detected_owners') : row.id = r.owner_id
                   /\ \A k \in 1..Len(CurrentGroup(r).listings) :
                          \E link \in Range(owner_listings') :
                              /\ link.owner_id = r.owner_id
                              /\ link.scraped_listing_id = CurrentGroup(r).listings[k].id
                              /\ link.match_type = CurrentGroup(r).match_type]_vars

\* the RPC raised for an owner of two listings that an earlier run had scored
C10_Witness ==
    \E p \in Procs :
        /\ proc[p].trace # <<>>
        /\ LET e == proc[p].trace[Len(proc[p].trace)]
           IN  /\ e.op = "rpc"
               /\ ~e.ok
               /\ Len(proc[p].owner_groups[e.g].listings) = 2
               /\ \E row \in Range(detected_owners) :
                      /\ row.id = e.owner_id
                      /\ row.risk_score > 0
                      /\ row.last_seen_at = proc[p].now
               /\ LinkCount(owner_listings, e.owner_id) = 2

\* C8: nothing keeps two concurrent runs apart.  Whenever both have looked
\* up the same phone, found no owner and inserted one, the store holds two
\* owner rows with that primary_phone and each run has counted a new owner.
InsertedAfterMiss(r, phone) ==
    \E i, j \in 1..Len(r.trace) :
        /\ i < j
        /\ r.trace[i].op = "lookup" /\ r.trace[i].ok /\ r.trace[i].owner_id = 0
        /\ r.trace[j].op = "insert" /\ r.trace[j].ok
        /\ r.trace[i].g = r.trace[j].g
        /\ r.owner_groups[r.trace[i].g].identifier = phone

RowsOfPhone(table, phone) == {i \in 1..Len(table) : table[i].primary_phone = phone}

C8_RaceDuplicatesOwner ==
    \A phone \in {Phone1, Phone2} :
        (InsertedAfterMiss(proc[1], phone) /\ InsertedAfterMiss(proc[2], phone)) =>
            /\ Cardinality(RowsOfPhone(detected_owners, phone)) = 2
            /\ \A p \in Procs : proc[p].stats.new_owners >= 1

\* both runs have returned, each counting a new owner, and two owner rows
\* carry the same primary_phone
C8_Witness ==
    /\ \A p \in Procs : proc[p].pc = "done" /\ proc[p].stats.new_owners >= 1
    /\ InsertedAfterMiss(proc[1], Phone1)
    /\ InsertedAfterMiss(proc[2], Phone1)
    /\ Cardinality(RowsOfPhone(detected_owners, Phone1)) = 2

\* An owner row without its id and timestamps, with the links it carries.
OwnerView(row, link_table) ==
    [primary_phone |-> row.primary_phone,
     names |-> row.names,
     host_ids |-> row.host_ids,
     platforms |-> row.platforms,
     listing_count |-> row.listing_count,
     avg_price_per_night |-> row.avg_price_per_night,
     estimated_monthly_revenue |-> row.estimated_monthly_revenue,
     risk_score |-> row.risk_score,
     links |-> {[scraped_listing_id |-> link.scraped_listing_id,
                 match_type |-> link.match_type,
                 confidence |-> link.confidence] :
                   link \in LinksOf(link_table, row.id)}]

\* The rows of the store up to owner ids and timestamps: how many owner rows
\* there are of each view.
StoreView(owner_table, link_table) ==
    LET views == {OwnerView(owner_table[i], link_table) : i \in 1..Len(owner_table)}
    IN  [v \in views |->
            Cardinality({i \in 1..Len(owner_table) :
                            OwnerView(owner_table[i], link_table) = v})]

\* A returned run in which a call raised, followed by a failure-free run over
\* the same listings.
FailedThenClean(n) ==
    /\ n \in 1..(Len(log) - 1)
    /\ Errors(log[n]) > 0
    /\ Errors(log[n + 1]) = 0
    /\ log[n + 1].run = log[n].run + 1
    /\ log[n + 1].listings = log[n].listings
    /\ log[n + 1].owners0 = log[n].owners
    /\ log[n + 1].links0 = log[n].links

\* C11: after a run in which a call raised and a failure-free run over the
\* same listings, the owner and link rows are those one failure-free run
\* leaves from the store the failed run started from (up to owner ids and
\* timestamps).
C11_RerunAfterFailure ==
    \A n \in 1..(Len(log) - 1) :
        FailedThenClean(n) =>
            LET once == SaveAll(log[n].owners0, log[n].links0,
                                log[n].owner_groups, 1, log[n].run)
            IN  StoreView(log[n + 1].owners, log[n + 1].links)
                    = StoreView(once.owners, once.links)

\* the groups of run r for which a call of one of the kinds ops returned
GroupsDone(r, ops) == {r.trace[i].g : i \in {j \in 1..Len(r.trace) :
                                                r.trace[j].ok /\ r.trace[j].op \in ops}}

\* the groups of run r whose owner write (insert or update) raised
GroupsWriteFailed(r) ==
    {r.trace[i].g : i \in {j \in 1..Len(r.trace) :
                              ~r.trace[j].ok /\ r.trace[j].op \in {"insert", "update"}}}

\* the rows that were in the store when the run started and that it updated
RowsUpdated(r) == {i \in 1..Len(r.owners0) : r.owners[i].last_seen_at = r.run}

\* C12: the statistics of a run count successful writes only: new_owners is
\* the number of owner rows inserted, updated_owners the number of rows
\* updated, total_owners and multi_property count the groups that were
\* processed to the end, and a group whose owner write raised is in none of
\* the four counters.
C12_StatsCountSuccesses ==
    \A n \in 1..Len(log) :
        LET r == log[n]
            finished == GroupsDone(r, {"rpc"})
        IN  /\ r.stats.new_owners = Len(r.owners) - Len(r.owners0)
            /\ r.stats.new_owners = Cardinality(GroupsDone(r, {"insert"}))
            /\ r.stats.updated_owners = Cardinality(RowsUpdated(r))
            /\ r.stats.updated_owners = Cardinality(GroupsDone(r, {"update"}))
            /\ r.stats.total_owners = Cardinality(finished)
            /\ r.stats.multi_property =
                   Cardinality({g \in finished : Len(r.owner_groups[g].listings) > 1})
            /\ GroupsWriteFailed(r) \cap GroupsDone(r, {"insert", "update", "rpc"}) = {}

\* a returned run in which the owner write of one group raised and that of
\* another returned
C12_Witness ==
    \E n \in 1..Len(log) :
        /\ GroupsWriteFailed(log[n]) # {}
        /\ GroupsDone(log[n], {"insert", "update"}) # {}
        /\ log[n].stats.new_owners + log[n].stats.updated_owners >= 1

\* the characters 0-9 of a string
DecimalDigits(s) == SelectSeq(s, LAMBDA c : c \in Digits)

CountryCode == <<"+", "2", "2", "1">>

\* a 9-digit local number whose first digit is 7 or 3
IsLocalNumber(d) ==
    /\ Len(d) = 9
    /\ \A i \in 1..9 : d[i] \in Digits
    /\ d[1] \in {"7", "3"}

\* the digits of the prefixes '+221', '00221', '221', '0' and of no prefix
WrittenPrefixes ==
    {<<"2", "2", "1">>, <<"0", "0", "2", "2", "1">>, <<"0">>, <<>>}

NormalizeReturned == call.fn = "normalize_phone" /\ call.done

\* C13: a string that is '+221'+d, '00221'+d, '221'+d, '0'+d or d with
\* non-digit characters inserted, d a 9-digit local number starting with 7 or
\* 3, is normalized to '+221'+d.
C13_WrittenFormsSameKey ==
    NormalizeReturned =>
        \A prefix \in WrittenPrefixes :
            LET digits == DecimalDigits(call.arg)
                d == DropPrefix(digits, Len(prefix))
            IN  (StartsWith(digits, prefix) /\ IsLocalNumber(d))
                    => call.result = CountryCode \o d

\* the reference of the normalizer: the prefixes in the order they are tried
ReferencePrefixes ==
    <<(<<"0", "0", "2", "2", "1">>), (<<"2", "2", "1">>), (<<"0">>)>>

RECURSIVE StripFirstPrefix(_, _)
StripFirstPrefix(digits, i) ==
    IF i > Len(ReferencePrefixes) THEN digits
    ELSE IF StartsWith(digits, ReferencePrefixes[i])
         THEN DropPrefix(digits, Len(ReferencePrefixes[i]))
         ELSE StripFirstPrefix(digits, i + 1)

ReferenceNormalize(phone) ==
    LET rest == StripFirstPrefix(DecimalDigits(phone), 1)
    IN  IF IsLocalNumber(rest) THEN CountryCode \o rest ELSE None

\* C14: normalize_phone returns what the reference returns (non-digits
\* dropped, the first of the prefixes 00221, 221, 0 stripped once, '+221' and
\* the rest if the rest is 9 digits starting with 7 or 3, no signal
\* otherwise), and every result that is a signal is '+221' followed by 9
\* digits starting with 7 or 3.
C14_EqualsReference ==
    NormalizeReturned =>
        /\ call.result = ReferenceNormalize(call.arg)
        /\ call.result # None =>
               /\ StartsWith(call.result, CountryCode)
               /\ IsLocalNumber(DropPrefix(call.result, Len(CountryCode)))

OwnerDataReturned == call.fn = "owner_data" /\ call.done

\* the listings of a group that carry a positive price
Priced(ls) == {i \in 1..Len(ls) : ls[i].price > 0}

RECURSIVE SumOfPrices(_, _)
SumOfPrices(ls, ids) ==
    IF ids = {} THEN 0
    ELSE LET i == CHOOSE j \in ids : TRUE
         IN  ls[i].price + SumOfPrices(ls, ids \ {i})

\* C15 as stated: avg_price_per_night is the arithmetic mean of the positive
\* prices of the group's listings, and 0 when there is none.
C15_AvgIsMean ==
    OwnerDataReturned =>
        LET ls == call.arg.listings
            avg == call.result.avg_price_per_night
        IN  IF Priced(ls) = {} THEN avg = 0
            ELSE avg * Cardinality(Priced(ls)) = SumOfPrices(ls, Priced(ls))

\* C15: avg_price_per_night is the arithmetic mean of the positive prices of
\* the group's listings truncated to an integer, and 0 when there is none.
C15_AvgIsTruncatedMean ==
    OwnerDataReturned =>
        LET ls == call.arg.listings
            avg == call.result.avg_price_per_night
            n == Cardinality(Priced(ls))
            total == SumOfPrices(ls, Priced(ls))
        IN  IF n = 0 THEN avg = 0
            ELSE avg * n <= total /\ total < (avg + 1) * n

\* a group with a listing without a positive price whose mean is no integer
C15_Witness ==
    /\ OwnerDataReturned
    /\ Cardinality(Priced(call.arg.listings)) \in 2..(Len(call.arg.listings) - 1)
    /\ SumOfPrices(call.arg.listings, Priced(call.arg.listings))
           % Cardinality(Priced(call.arg.listings)) # 0

\* C16: estimated_monthly_revenue is avg_price_per_night times listing_count
\* times 15, listing_count counting every listing of the group; the prices
\* 100, 150, 50 give the average 100 and the revenue 4500.
C16_RevenueFormula ==
    OwnerDataReturned =>
        /\ call.result.listing_count = Len(call.arg.listings)
        /\ call.result.estimated_monthly_revenue =
               call.result.avg_price_per_night * Len(call.arg.listings) * 15
        /\ [i \in 1..Len(call.arg.listings) |-> call.arg.listings[i].price]
               = <<100, 150, 50>>
           => /\ call.result.avg_price_per_night = 100
              /\ call.result.estimated_monthly_revenue = 4500

\* a group with a price and a listing without one
C16_Witness ==
    /\ OwnerDataReturned
    /\ call.result.estimated_monthly_revenue > 0
    /\ \E i \in 1..Len(call.arg.listings) : call.arg.listings[i].price <= 0

ExtractReturned == call.fn = "extract_phone_from_listing" /\ call.done

FieldOrder == <<"phone", "phoneNumber", "whatsapp", "contact_phone">>

\* what field number i of the listing holds; nothing when the field or
\* raw_data is missing
FieldValue(listing, i) ==
    IF FieldOrder[i] \in DOMAIN listing.raw_data
    THEN listing.raw_data[FieldOrder[i]]
    ELSE None

\* the fields of the listing whose value is a valid number
ValidFields(listing) ==
    {i \in 1..Len(FieldOrder) : normalize_phone(FieldValue(listing, i)) # None}

\* C20: the phone signal of a listing is the normalized value of the first
\* of the fields phone, phoneNumber, whatsapp, contact_phone that holds a
\* valid number, whatever the fields before it hold and whatever the fields
\* after it hold, and there is no signal exactly when no field is valid or
\* raw_data is missing.
C20_FirstValidField ==
    ExtractReturned =>
        LET valid == ValidFields(call.arg)
        IN  /\ (call.result = None) <=> (valid = {})
            /\ \A i \in valid :
                   (\A j \in valid : i <= j)
                       => call.result = normalize_phone(FieldValue(call.arg, i))

\* the first field holds a number that is not valid, the second nothing, the
\* third and the fourth two different valid numbers
C20_Witness ==
    /\ ExtractReturned
    /\ ValidFields(call.arg) = {3, 4}
    /\ FieldValue(call.arg, 1) # None
    /\ FieldValue(call.arg, 2) = None
    /\ call.result = Phone1
    /\ normalize_phone(FieldValue(call.arg, 4)) = Phone2

\* the phone signal of a listing, from its fields
PhoneSignal(listing) ==
    LET valid == ValidFields(listing)
    IN  IF valid = {} THEN None
        ELSE normalize_phone(FieldValue(listing,
                                        CHOOSE i \in valid : \A j \in valid : i <= j))

\* the host names of the listings, trimmed, without the blank ones
TrimmedNames(ls) ==
    {Strip(ls[i].host_name) : i \in 1..Len(ls)} \ {<<>>}

\* a failure-free run on an empty store over n >= 1 listings of one phone
OneOwnerRun(r) ==
    /\ r.owners0 = <<>>
    /\ r.links0 = <<>>
    /\ Errors(r) = 0
    /\ Len(r.listings) >= 1
    /\ PhoneSignal(r.listings[1]) # None
    /\ \A i \in 1..Len(r.listings) :
           PhoneSignal(r.listings[i]) = PhoneSignal(r.listings[1])

\* C17: a failure-free run on an empty store over n >= 1 active listings that
\* all normalize to the phone p leaves one owner row, with primary_phone p,
\* listing_count n and the distinct trimmed non-blank host names, and n link
\* rows, one per listing, each of match_type phone and confidence 1.0.
C17_OnePhoneOneOwner ==
    \A k \in 1..Len(log) :
        OneOwnerRun(log[k]) =>
            LET r == log[k]
                n == Len(r.listings)
            IN  /\ Len(r.owners) = 1
                /\ r.owners[1].primary_phone = PhoneSignal(r.listings[1])
                /\ r.owners[1].listing_count = n
                /\ r.owners[1].names = TrimmedNames(r.listings)
                /\ Len(r.links) = n
                /\ \A i \in 1..n :
                       \E j \in 1..Len(r.links) :
                           /\ r.links[j].scraped_listing_id = r.listings[i].id
                           /\ r.links[j].owner_id = r.owners[1].id
                           /\ r.links[j].match_type = "phone"
                           /\ r.links[j].confidence = 10

\* three listings of the owner, the number written in three ways, one host
\* name blank and two that differ only after trimming
C17_Witness ==
    \E k \in 1..Len(log) :
        /\ OneOwnerRun(log[k])
        /\ Len(log[k].listings) = 3
        /\ Cardinality({ExtractRawPhone(log[k].listings[i]) : i \in 1..3}) = 3
        /\ <<" ">> \in {log[k].listings[i].host_name : i \in 1..3}
        /\ Cardinality(log[k].owners[1].names) = 2

\* the link calls of run r that returned
LinksWritten(r) ==
    {r.trace[i] : i \in {j \in 1..Len(r.trace) : r.trace[j].ok /\ r.trace[j].op = "link"}}

\* the link row of an owner and a listing carries the match_type
CarriesMatchType(table, owner_id, listing_id, match_type) ==
    \E i \in 1..Len(table) :
        /\ table[i].owner_id = owner_id
        /\ table[i].scraped_listing_id = listing_id
        /\ table[i].match_type = match_type

\* C18: a link row carries the match_type of the group it was written for,
\* its confidence is 1.0 exactly when that is phone and 0.9 exactly when it
\* is host_id, and the link table holds no other confidence.
C18_ConfidenceByMatchType ==
    /\ \A i \in 1..Len(owner_listings) :
           LET row == owner_listings[i]
           IN  /\ row.match_type \in {"phone", "host_id"}
               /\ row.confidence \in {10, 9}
               /\ row.confidence = 10 <=> row.match_type = "phone"
               /\ row.confidence = 9 <=> row.match_type = "host_id"
    /\ \A p \in Procs :
           \A e \in LinksWritten(proc[p]) :
               CarriesMatchType(owner_listings, e.owner_id, e.listing_id,
                                proc[p].owner_groups[e.g].match_type)
    /\ \A k \in 1..Len(log) :
           \A e \in LinksWritten(log[k]) :
               CarriesMatchType(log[k].links, e.owner_id, e.listing_id,
                                log[k].owner_groups[e.g].match_type)

\* the link table holds a link of a phone group and one of a host-id group
C18_Witness ==
    /\ \E i \in 1..Len(owner_listings) :
           owner_listings[i].match_type = "phone" /\ owner_listings[i].confidence = 10
    /\ \E i \in 1..Len(owner_listings) :
           owner_listings[i].match_type = "host_id" /\ owner_listings[i].confidence = 9
    /\ \E k \in 1..Len(log) : Cardinality(LinksWritten(log[k])) >= 2

\* a credential is unset or empty
CredentialMissing ==
    \E name \in {"SUPABASE_URL", "SUPABASE_SERVICE_ROLE_KEY"} :
        name \notin DOMAIN main.env \/ main.env[name] = ""

\* C19: with SUPABASE_URL or SUPABASE_SERVICE_ROLE_KEY unset or empty, the
\* detect and the report command end at start-up with a non-zero status: no
\* client is created, no listing is read, no report is made, no owner or
\* link is written (the store is as the invocation found it).
C19_MissingCredentialFatal ==
    CredentialMissing =>
        /\ main.pc \in {"start", "env", "exited"}
        /\ main.pc = "exited" => main.exit_code # 0
        /\ ~main.client
        /\ main.report = None
        /\ \A p \in Procs : proc[p] = IdleProc
        /\ clock = 0
        /\ log = <<>>
        /\ \/ detected_owners = <<>> /\ owner_listings = <<>>
           \/ /\ detected_owners = EarlierStore(scraped_listings).owners
              /\ owner_listings = EarlierStore(scraped_listings).links

\* the program has ended on the credentials test, one credential being set
C19_Witness ==
    /\ CredentialMissing
    /\ main.installed
    /\ main.pc = "exited"
    /\ main.exit_code = 1
    /\ \E name \in DOMAIN main.env : main.env[name] = "set"

\* the listing has a host id on one of the two platforms that expose one
HasHostSignal(listing) ==
    listing.host_id # "" /\ listing.platform \in {"airbnb", "booking"}

\* the groups of run r that hold the listing id
GroupsOfListing(r, id) ==
    {g \in 1..Len(r.owner_groups) : id \in SeqToSet(r.owner_groups[g].listing_ids)}

\* the listings a run has read: they are in its record once it has fetched
ListingsRead(r) == {r.listings[i] : i \in 1..Len(r.listings)}

\* C21: a listing is in a host-id group only if its host_id is not empty and
\* its platform is airbnb or booking; a listing without a valid phone that has
\* no host id or is on another platform is in no group, and no link row is
\* written for it.
C21_HostSignalPlatforms ==
    \A p \in Procs :
        \A listing \in ListingsRead(proc[p]) :
            /\ \A g \in GroupsOfListing(proc[p], listing.id) :
                   proc[p].owner_groups[g].match_type = "host_id"
                       => /\ HasHostSignal(listing)
                          /\ proc[p].owner_groups[g].identifier
                                 = <<listing.platform, listing.host_id>>
            /\ (PhoneSignal(listing) = None /\ ~HasHostSignal(listing))
                   => /\ GroupsOfListing(proc[p], listing.id) = {}
                      /\ \A e \in LinksWritten(proc[p]) : e.listing_id # listing.id
                      /\ \A i \in 1..Len(owner_listings) :
                             owner_listings[i].scraped_listing_id # listing.id

\* a returned failure-free run over a listing with a host id on another
\* platform and no phone, next to a listing that is in a host-id group
C21_Witness ==
    \E k \in 1..Len(log) :
        /\ Errors(log[k]) = 0
        /\ \E listing \in ListingsRead(log[k]) :
               /\ listing.host_id # ""
               /\ listing.platform = "expat_dakar"
               /\ PhoneSignal(listing) = None
        /\ \E g \in 1..Len(log[k].owner_groups) :
               log[k].owner_groups[g].match_type = "host_id"
        /\ owner_listings # <<>>

\* the listing is in exactly one group of run r, once, and that group has
\* the match type and the identifier
InOneGroup(r, listing, match_type, identifier) ==
    /\ Cardinality(GroupsOfListing(r, listing.id)) = 1
    /\ \A g \in GroupsOfListing(r, listing.id) :
           /\ r.owner_groups[g].match_type = match_type
           /\ r.owner_groups[g].identifier = identifier
           /\ Cardinality({i \in 1..Len(r.owner_groups[g].listing_ids) :
                              r.owner_groups[g].listing_ids[i] = listing.id}) = 1
           /\ \E i \in 1..Len(r.owner_groups[g].listings) :
                  r.owner_groups[g].listings[i] = listing

CallsDone(r, op) ==
    {r.trace[i] : i \in {j \in 1..Len(r.trace) : r.trace[j].ok /\ r.trace[j].op = op}}

\* the row of the owner id in a table that holds it
OwnerRow(table, id) == table[CHOOSE i \in 1..Len(table) : table[i].id = id]

\* the derived fields of the row are those of the listings alone
DerivedFrom(row, ls) ==
    /\ row.listing_count = Len(ls)
    /\ row.active_listing_count = Len(ls)
    /\ row.names = TrimmedNames(ls)
    /\ row.platforms = {ls[i].platform : i \in 1..Len(ls)}
    /\ row.host_ids = {<<ls[i].platform, ls[i].host_id>> :
                          i \in {j \in 1..Len(ls) : ls[j].host_id # ""}}

\* C23: the update of an existing owner overwrites the derived fields with
\* those of the current group (nothing of the earlier values is kept) and
\* sets last_seen_at to the time of the run; id, primary_phone and
\* first_seen_at keep their values; first_seen_at is set when the row is
\* inserted.
C23_UpdateOverwrites ==
    \A k \in 1..Len(log) :
        LET r == log[k]
        IN  /\ \A e \in CallsDone(r, "update") :
                   LET old == OwnerRow(r.owners0, e.owner_id)
                       new == OwnerRow(r.owners, e.owner_id)
                   IN  /\ DerivedFrom(new, r.owner_groups[e.g].listings)
                       /\ new.last_seen_at = r.run
                       /\ new.id = old.id
                       /\ new.primary_phone = old.primary_phone
                       /\ new.first_seen_at = old.first_seen_at
                       /\ new.first_seen_at < r.run
            /\ \A e \in CallsDone(r, "insert") :
                   /\ \A i \in 1..Len(r.owners0) : r.owners0[i].id # e.owner_id
                   /\ DerivedFrom(OwnerRow(r.owners, e.owner_id),
                                  r.owner_groups[e.g].listings)
                   /\ OwnerRow(r.owners, e.owner_id).first_seen_at = r.run
                   /\ OwnerRow(r.owners, e.owner_id).last_seen_at = r.run

\* an update after which the owner has fewer listings and a name less
C23_Witness ==
    \E k \in 1..Len(log) :
        \E e \in CallsDone(log[k], "update") :
            LET old == OwnerRow(log[k].owners0, e.owner_id)
                new == OwnerRow(log[k].owners, e.owner_id)
            IN  /\ new.listing_count < old.listing_count
                /\ new.names # old.names
                /\ new.names \subseteq old.names
                /\ new.last_seen_at > old.last_seen_at

\* the places in the trace of run r of the calls of group g of the kinds ops
\* that returned (ok) or raised
CallsAt(r, g, ops, ok) ==
    {i \in 1..Len(r.trace) :
        r.trace[i].g = g /\ r.trace[i].op \in ops /\ r.trace[i].ok = ok}

\* the steps of group g of run r are in order
StepsInOrder(r, g) ==
    LET writes == CallsAt(r, g, {"insert", "update"}, TRUE)
        links == CallsAt(r, g, {"link"}, TRUE) \cup CallsAt(r, g, {"link"}, FALSE)
        scores == CallsAt(r, g, {"rpc"}, TRUE) \cup CallsAt(r, g, {"rpc"}, FALSE)
        ls == r.owner_groups[g].listings
    IN  /\ \A i \in links :
               \E w \in writes : w < i /\ r.trace[w].owner_id = r.trace[i].owner_id
        /\ \A i \in scores :
               /\ \E w \in writes : w < i /\ r.trace[w].owner_id = r.trace[i].owner_id
               /\ \A n \in 1..Len(ls) :
                      \E j \in CallsAt(r, g, {"link"}, TRUE) :
                          /\ j < i
                          /\ r.trace[j].listing_id = ls[n].id
                          /\ r.trace[j].owner_id = r.trace[i].owner_id
        /\ (CallsAt(r, g, {"insert", "update", "link"}, FALSE) # {}) => scores = {}
        /\ Cardinality(scores) <= 1

\* C24: in the reconciliation of one group the owner row is written before
\* any link of the group is upserted, the risk score is asked for that owner
\* after all links of the group have been upserted, not at all when the owner
\* write or a link upsert raised, and once per group in a run without failure.
C24_StepOrder ==
    /\ \A p \in Procs :
           \A g \in 1..Len(proc[p].owner_groups) : StepsInOrder(proc[p], g)
    /\ \A k \in 1..Len(log) :
           /\ \A g \in 1..Len(log[k].owner_groups) : StepsInOrder(log[k], g)
           /\ Errors(log[k]) = 0 =>
                  \A g \in 1..Len(log[k].owner_groups) :
                      Cardinality(CallsAt(log[k], g, {"rpc"}, TRUE)) = 1

\* a returned run in which a link upsert of one group raised and the risk
\* score of another group, of several listings, was computed
C24_Witness ==
    \E k \in 1..Len(log) :
        /\ \E g \in 1..Len(log[k].owner_groups) :
               CallsAt(log[k], g, {"link"}, FALSE) # {}
        /\ \E g \in 1..Len(log[k].owner_groups) :
               /\ CallsAt(log[k], g, {"rpc"}, TRUE) # {}
               /\ Len(log[k].owner_groups[g].listings) >= 2

OwnerIds(table) == {table[i].id : i \in 1..Len(table)}

\* C25: no step removes an owner row or a link row: the owner ids and the
\* (owner_id, listing id) keys of the links of one state are among those of
\* the next, whatever fails and however the listings change.
C25_NeverDeletes ==
    [][/\ OwnerIds(detected_owners) \subseteq OwnerIds(detected_owners')
       /\ LinkKeys(owner_listings) \subseteq LinkKeys(owner_listings')
       /\ Len(detected_owners) <= Len(detected_owners')
       /\ Len(owner_listings) <= Len(owner_listings')]_vars

\* after a second, returned run an owner written again in that run still has
\* a link to a listing that is no longer active
C25_Witness ==
    /\ Len(log) = 2
    /\ proc[1].pc = "done"
    /\ \E e \in CallsDone(log[2], "update") :
           \E link \in LinksOf(owner_listings, e.owner_id) :
               ~scraped_listings[link.scraped_listing_id].is_active
               /\ link.scraped_listing_id \notin
                      {log[2].listings[i].id : i \in 1..Len(log[2].listings)}

Smaller(a, b) == IF a < b THEN a ELSE b

\* the sum of the values, each taken as often as times says
RECURSIVE SumTimes(_, _)
SumTimes(values, times) ==
    IF values = {} THEN 0
    ELSE LET v == CHOOSE w \in values : TRUE
         IN  v * times[v] + SumTimes(values \ {v}, times)

\* the sum of listing_count over the rows of the ids
ListingCountOfIds(table, ids) ==
    LET rows == {row \in Range(table) : row.id \in SeqToSet(ids)}
        values == {row.listing_count : row \in rows}
    IN  SumTimes(values,
                 [v \in values |-> Cardinality({row \in rows : row.listing_count = v})])

\* a report that has been made is the one of the claim
ReportAsStated ==
    main.report # None =>
        LET read == main.report.owners_read
            top == main.report.top_operators
            active == Cardinality({id \in ListingIdSet : scraped_listings[id].is_active})
            risk == [id \in OwnerIds(detected_owners) |->
                        OwnerRow(detected_owners, id).risk_score]
            unread == OwnerIds(detected_owners) \ SeqToSet(read)
        IN  /\ Len(read) = Smaller(Len(detected_owners), 100)
            /\ SeqToSet(read) \subseteq OwnerIds(detected_owners)
            /\ Cardinality(SeqToSet(read)) = Len(read)
            /\ \A k \in 1..(Len(read) - 1) : risk[read[k]] >= risk[read[k + 1]]
            /\ \A id \in unread : risk[read[Len(read)]] >= risk[id]
            /\ main.report.total_listings = active
            /\ main.report.coverage_rate =
                   IF active = 0 THEN [num |-> 0, den |-> 1]
                   ELSE [num |-> ListingCountOfIds(detected_owners, read),
                         den |-> active]
            /\ Len(top) = Smaller(Len(read), 10)
            /\ \A k \in 1..Len(top) :
                   LET owner == OwnerRow(detected_owners, read[k])
                   IN  /\ top[k].phone = owner.primary_phone
                       /\ top[k].names = owner.names
                       /\ top[k].platforms = owner.platforms
                       /\ top[k].listing_count = owner.listing_count
                       /\ top[k].risk_score = owner.risk_score
                       /\ top[k].estimated_monthly_revenue = owner.estimated_monthly_revenue

C27_PhoneOwnerUnique ==
    \A i, j \in 1..Len(detected_owners) :
        (i # j /\ detected_owners[i].primary_phone # NoPhone)
            => detected_owners[i].primary_phone # detected_owners[j].primary_phone

\* two returned runs, the listings changed between them, a call raised, and
\* the second run found an owner of the first by its phone
C27_Witness ==
    /\ Len(log) = 2
    /\ changes >= 1
    /\ failures >= 1
    /\ CallsDone(log[2], "update") # {}
    /\ \E i \in 1..Len(detected_owners) : detected_owners[i].primary_phone # NoPhone

\* the owners written (inserted or updated) in run r
OwnersWritten(r) ==
    {e.owner_id : e \in CallsDone(r, "insert") \cup CallsDone(r, "update")}

\* C28: after a returned run without failure, also when the active listings
\* changed since the run before, every owner written in the run has a
\* listing_count equal to the number of link rows of its owner id.
C28_ListingCountIsLinkCount ==
    \A k \in 1..Len(log) :
        Errors(log[k]) = 0 =>
            \A id \in OwnersWritten(log[k]) :
                OwnerRow(log[k].owners, id).listing_count
                    = Cardinality(LinksOf(log[k].links, id))

\* the groups of run r whose owner write, link upserts (one per listing of the
\* group) and risk-score call all returned
Completed(r) ==
    {g \in 1..Len(r.owner_groups) :
        /\ CallsAt(r, g, {"insert", "update"}, TRUE) # {}
        /\ \A n \in 1..Len(r.owner_groups[g].listings) :
               \E j \in CallsAt(r, g, {"link"}, TRUE) :
                   r.trace[j].listing_id = r.owner_groups[g].listings[n].id
        /\ CallsAt(r, g, {"rpc"}, TRUE) # {}
        /\ CallsAt(r, g, {"insert", "update", "link", "rpc"}, FALSE) = {}}

\* C29: the statistics a run returns, with or without failures, satisfy
\* multi_property <= total_owners <= new_owners + updated_owners <= number of
\* groups, with total_owners = new_owners + updated_owners when nothing
\* raised; total_owners is the number of groups whose owner write, link
\* upserts and risk-score call all returned, multi_property the number of
\* those with more than one listing.
C29_StatsOrdered ==
    \A k \in 1..Len(log) :
        LET r == log[k]
            written == r.stats.new_owners + r.stats.updated_owners
        IN  /\ r.stats.multi_property <= r.stats.total_owners
            /\ r.stats.total_owners <= written
            /\ written <= Len(r.owner_groups)
            /\ Errors(r) = 0 => r.stats.total_owners = written
            /\ r.stats.total_owners = Cardinality(Completed(r))
            /\ r.stats.multi_property =
                   Cardinality({g \in Completed(r) :
                                   Len(r.owner_groups[g].listings) > 1})

\* a run without failure that completed a group of two listings and a group
\* of one, then a run in which a call raised after the owner write
C29_Witness ==
    /\ Len(log) = 2
    /\ Errors(log[1]) = 0
    /\ log[1].stats.multi_property = 1
    /\ log[1].stats.total_owners = 2
    /\ Errors(log[2]) > 0
    /\ log[2].stats.total_owners
           < log[2].stats.new_owners + log[2].stats.updated_owners

\* the clusters of a run without their order: match_type, identifier and the
\* set of member listing ids
ClusterSet(groups) ==
    {[match_type |-> groups[i].match_type,
      identifier |-> groups[i].identifier,
      members |-> SeqToSet(groups[i].listing_ids)] : i \in 1..Len(groups)}

\* C30: the clusters do not depend on the order in which the store returns
\* the listings: two runs that read the same active listings, in whatever
\* orders, build the same set of clusters (match_type, identifier, member
\* listing ids), each once; the order of the clusters and of the members is
\* all that may differ.
C30_OrderIndependent ==
    \A k \in 1..Len(log) :
        /\ Cardinality(ClusterSet(log[k].owner_groups)) = Len(log[k].owner_groups)
        /\ \A g \in 1..Len(log[k].owner_groups) :
               /\ Cardinality(SeqToSet(log[k].owner_groups[g].listing_ids))
                      = Len(log[k].owner_groups[g].listing_ids)
               /\ ListingIds(log[k].owner_groups[g].listings)
                      = log[k].owner_groups[g].listing_ids
        /\ \A n \in 1..Len(log) :
               SeqToSet(log[k].listings) = SeqToSet(log[n].listings)
                   => ClusterSet(log[k].owner_groups) = ClusterSet(log[n].owner_groups)

\* two runs that read the same listings in different orders and built the
\* clusters in different orders, one of them a cluster of two listings whose
\* members are in different orders too
C30_Witness ==
    /\ Len(log) = 2
    /\ SeqToSet(log[1].listings) = SeqToSet(log[2].listings)
    /\ log[1].listings # log[2].listings
    /\ Len(log[1].owner_groups) = 2
    /\ log[1].owner_groups[1].identifier = log[2].owner_groups[2].identifier
    /\ Len(log[1].owner_groups[1].listing_ids) = 2
    /\ log[1].owner_groups[1].listing_ids # log[2].owner_groups[2].listing_ids

====
